---- MODULE Spec2Model ----
(***************************************************************************)
(* Booking calendar of the apart-hotel application (src/app.py).           *)
(*                                                                         *)
(* The relational store is modelled by three tables: rooms, bookings and   *)
(* room_statuses.  Dates are day numbers; the store keeps them as ISO      *)
(* strings, so a stored date is either a day number or BadDate, a string   *)
(* that date.fromisoformat() rejects and for which SQL date() yields NULL. *)
(* Every request handler is one action; the handlers of add_booking are    *)
(* also given statement by statement (the connection is in autocommit      *)
(* mode, so every SQL statement is a transaction of its own).              *)
(***************************************************************************)
EXTENDS Integers, FiniteSets, Sequences, TLC

VARIABLES rooms, bookings, room_statuses, next_id, last, view, reqs, nops

vars == <<rooms, bookings, room_statuses, next_id, last, view, reqs, nops>>

(* ------------------------------ bounds --------------------------------- *)
\* the days bookings and statuses are drawn from are 1..MaxDay
MaxDay == 2
\* the bookings table hands out the ids 1..MaxBookings
MaxBookings == 2
\* requests served in one behaviour of Spec
MaxOps == 3
\* booking rows of the store a calendar is rendered from
MaxDrawn == 1

(* ----------------------------- domains --------------------------------- *)
\* the rooms table the model starts from: room 1 of complex "A", room 2 of "B"
RoomIds == {1, 2}
Dates == 1..MaxDay
BadDate == 0
DateInputs == Dates \cup {BadDate}
\* the displayed months split the days in two; today lies in the middle
MonthLen == (MaxDay + 1) \div 2
Months == 1..((MaxDay + MonthLen - 1) \div MonthLen)
Today == (MaxDay \div 2) + 1
NoRow == "<no row>"
NoBooking == 0
NoFilter == "<all>"

\* rooms.residential_complex of the rooms the model starts with
ComplexOf(r) == IF r = 1 THEN "A" ELSE "B"

OccupancyStates == {"occupied", "vacant", "booked", "ready", "cleaning", "hourly"}
DepositStates == {"paid", "withheld", "returned"}

(* --------------------------- pure helpers ------------------------------ *)
Parseable(d) == d # BadDate

\* variant of Nights whose loop runs up to the check-out date included (C3 excludes it)
NightsInclusive(check_in, check_out) ==
    IF ~(Parseable(check_in) /\ Parseable(check_out)) THEN {}
    ELSE IF check_in >= check_out THEN {check_in}
    ELSE {d \in check_in..check_out : TRUE}

\* the dates a booking row occupies, as every handler enumerates them
Nights(check_in, check_out) ==
    IF ~(Parseable(check_in) /\ Parseable(check_out)) THEN {}
    ELSE IF check_in >= check_out THEN {check_in}
    ELSE {d \in check_in..(check_out - 1) : TRUE}

MaxOf(S) == CHOOSE x \in S : \A y \in S : y <= x

BookingIds == {b.id : b \in bookings}
BookingById(id) == CHOOSE b \in bookings : b.id = id

\* variant of Upsert that, on a conflict with a row that holds s already, turns the
\* row into 'occupied'
UpsertEscalating(tbl, r, ds, s) ==
    [k \in DOMAIN tbl |->
        IF k[1] = r /\ k[2] \in ds /\ r \in rooms
        THEN (IF tbl[k] = s THEN "occupied" ELSE s)
        ELSE tbl[k]]

\* INSERT ... ON CONFLICT(room_id, date) DO UPDATE SET status = s, for a set of dates;
\* the foreign key on rooms(id) makes the insert fail for a room that does not exist
Upsert(tbl, r, ds, s) ==
    [k \in DOMAIN tbl |->
        IF k[1] = r /\ k[2] \in ds /\ r \in rooms THEN s ELSE tbl[k]]

\* variant of InsertIfAbsent that updates on conflict, as add_booking does (C4 excludes it)
InsertOrUpdate(tbl, r, ds, s) ==
    [k \in DOMAIN tbl |->
        IF k[1] = r /\ k[2] \in ds /\ r \in rooms THEN s ELSE tbl[k]]

\* INSERT ... ON CONFLICT(room_id, date) DO NOTHING, for a set of dates
InsertIfAbsent(tbl, r, ds, s) ==
    [k \in DOMAIN tbl |->
        IF k[1] = r /\ k[2] \in ds /\ r \in rooms /\ tbl[k] = NoRow THEN s ELSE tbl[k]]


\* the search submitted with a calendar request
Search(kind, start_date, end_date) ==
    [kind |-> kind, start_date |-> start_date, end_date |-> end_date]
NoSearch == Search("none", BadDate, BadDate)
NoView == [shown |-> FALSE, month |-> 0, complex |-> "", search |-> NoSearch, searched |-> FALSE,
           available_rooms |-> {}, calendar_rooms |-> {}, calendar_data |-> <<>>]

Request(op, ok, id, r, ci, co, st) ==
    [op |-> op, ok |-> ok, id |-> id, room_id |-> r, check_in |-> ci,
     check_out |-> co, status |-> st,
     pre_statuses |-> room_statuses, pre_bookings |-> bookings]

EmptyStatuses == [k \in RoomIds \X Dates |-> NoRow]

(* ------------------------- add_booking (POST) -------------------------- *)
\* variant of InsertBooking that refuses a row whose nights meet those of a stored
\* booking of the same room (the overlap check C9 says is absent)
InsertBookingExclusive(tbl, b) ==
    IF \E a \in tbl :
           /\ a.room_id = b.room_id
           /\ Nights(a.check_in_date, a.check_out_date)
                  \cap Nights(b.check_in_date, b.check_out_date) # {}
    THEN tbl ELSE tbl \cup {b}

\* INSERT INTO bookings (...): the row is stored whatever the table holds already
InsertBooking(tbl, b) == tbl \cup {b}

\* the date validation of add_booking: both dates present and parseable, nights >= 0
AddAccepts(check_in, check_out) ==
    /\ Parseable(check_in)
    /\ Parseable(check_out)
    /\ ~(check_out - check_in < 0)

add_booking(room_id, check_in, check_out, deposit_status) ==
    /\ room_id \in rooms
    /\ IF AddAccepts(check_in, check_out)
       THEN /\ next_id <= MaxBookings
            /\ bookings' = InsertBooking(bookings,
                   [id |-> next_id, room_id |-> room_id, check_in_date |-> check_in,
                    check_out_date |-> check_out, status |-> deposit_status])
            /\ next_id' = next_id + 1
            /\ room_statuses' =
                   Upsert(room_statuses, room_id, Nights(check_in, check_out), "booked")
            /\ last' = Request("add_booking", TRUE, next_id, room_id, check_in,
                               check_out, deposit_status)
       ELSE /\ UNCHANGED <<bookings, next_id, room_statuses>>
            /\ last' = Request("add_booking", FALSE, NoBooking, room_id, check_in,
                               check_out, deposit_status)
    /\ view' = NoView
    /\ UNCHANGED <<rooms, reqs>>

(* ------------------------- edit_booking (POST) ------------------------- *)
edit_booking(booking_id, room_id, check_in, check_out, deposit_status) ==
    /\ booking_id \in BookingIds
    /\ room_id \in rooms
    /\ bookings' = (bookings \ {BookingById(booking_id)}) \cup
           {[id |-> booking_id, room_id |-> room_id, check_in_date |-> check_in,
             check_out_date |-> check_out, status |-> deposit_status]}
    /\ room_statuses' =
           InsertIfAbsent(room_statuses, room_id, Nights(check_in, check_out), "booked")
    /\ last' = Request("edit_booking", TRUE, booking_id, room_id, check_in,
                       check_out, deposit_status)
    /\ view' = NoView
    /\ UNCHANGED <<rooms, next_id, reqs>>

(* ------------------------ delete_booking (POST) ------------------------ *)
\* variant of ResetNights that keeps the rows that exist (C5 excludes it)
ResetNightsIfAbsent(tbl, r, ds) == InsertIfAbsent(tbl, r, ds, "ready")

\* the occupied dates of the deleted booking are upserted as 'ready'
ResetNights(tbl, r, ds) == Upsert(tbl, r, ds, "ready")

delete_booking(booking_id) ==
    /\ booking_id \in 1..MaxBookings
    /\ IF booking_id \in BookingIds
       THEN LET b == BookingById(booking_id) IN
            /\ room_statuses' = ResetNights(room_statuses, b.room_id,
                                            Nights(b.check_in_date, b.check_out_date))
            /\ bookings' = bookings \ {b}
            /\ last' = Request("delete_booking", TRUE, booking_id, b.room_id,
                               b.check_in_date, b.check_out_date, b.status)
       ELSE /\ UNCHANGED <<room_statuses, bookings>>
            /\ last' = Request("delete_booking", FALSE, booking_id, 0, BadDate, BadDate, "")
    /\ view' = NoView
    /\ UNCHANGED <<rooms, next_id, reqs>>

(* ----------------------- set_room_status (POST) ------------------------ *)
\* SELECT ... WHERE room_id = ? AND date(check_in_date) <= date(?) AND date(check_out_date) >= date(?)
BookingsAround(room_id, d) ==
    {b \in bookings : /\ b.room_id = room_id
                      /\ Parseable(b.check_in_date) /\ Parseable(b.check_out_date)
                      /\ b.check_in_date <= d
                      /\ b.check_out_date >= d}

DatesToUpdate(room_id, d) ==
    IF BookingsAround(room_id, d) # {}
    THEN UNION {Nights(b.check_in_date, b.check_out_date) : b \in BookingsAround(room_id, d)}
    ELSE {d}

set_room_status(room_id, d, status) ==
    /\ room_id \in rooms
    /\ room_statuses' = Upsert(room_statuses, room_id, DatesToUpdate(room_id, d), status)
    /\ bookings' =
           IF status \in OccupancyStates
           THEN {IF b \in BookingsAround(room_id, d) THEN [b EXCEPT !.status = status] ELSE b
                 : b \in bookings}
           ELSE bookings
    /\ last' = Request("set_room_status", TRUE, NoBooking, room_id, d, d, status)
    /\ view' = NoView
    /\ UNCHANGED <<rooms, next_id, reqs>>

(* -------------------------- calendar_view (GET) ------------------------ *)
FirstDay(month) == (month - 1) * MonthLen + 1
LastDay(month) == month * MonthLen
DaysInMonth(month) == FirstDay(month)..LastDay(month)

\* SELECT ... FROM rooms [WHERE residential_complex = ?]
RoomsOfComplex(complex_filter) ==
    {r \in rooms : complex_filter = NoFilter \/ ComplexOf(r) = complex_filter}

\* variant of Conflicts that counts the check-out date as occupied (C6 excludes it)
ConflictsCheckOutOccupied(b, start_date, end_date) ==
    /\ Parseable(b.check_in_date) /\ Parseable(b.check_out_date)
    /\ ~(b.check_out_date < start_date \/ b.check_in_date >= end_date)

\* variant of Conflicts that takes the end date of the search as inclusive
ConflictsEndInclusive(b, start_date, end_date) ==
    /\ Parseable(b.check_in_date) /\ Parseable(b.check_out_date)
    /\ ~(b.check_out_date <= start_date \/ b.check_in_date > end_date)

\* WHERE NOT (date(check_out_date) <= date(start) OR date(check_in_date) >= date(end));
\* a NULL date() makes the condition NULL or FALSE, never TRUE
Conflicts(b, start_date, end_date) ==
    /\ Parseable(b.check_in_date) /\ Parseable(b.check_out_date)
    /\ ~(b.check_out_date <= start_date \/ b.check_in_date >= end_date)


\* variant of FreeRooms that swaps a reversed range instead of ignoring it
FreeRoomsSwapping(search, complex_filter) ==
    CASE search.kind = "free" ->
           <<TRUE, {r \in RoomsOfComplex(complex_filter) :
                        \A b \in bookings : b.room_id # r}>>
      [] search.kind = "range" ->
           IF ~(Parseable(search.start_date) /\ Parseable(search.end_date))
           THEN <<TRUE, {}>>
           ELSE LET lo == IF search.start_date <= search.end_date
                          THEN search.start_date ELSE search.end_date
                    hi == IF search.start_date <= search.end_date
                          THEN search.end_date ELSE search.start_date
                IN <<TRUE, {r \in RoomsOfComplex(complex_filter) :
                               \A b \in bookings :
                                   ~(b.room_id = r /\ Conflicts(b, lo, hi))}>>
      [] OTHER -> <<FALSE, {}>>

\* the free-room search: <<performed, available_rooms>>; performed is FALSE when
\* available_rooms stays None
FreeRooms(search, complex_filter) ==
    CASE search.kind = "free" ->
           <<TRUE, {r \in RoomsOfComplex(complex_filter) :
                        \A b \in bookings : b.room_id # r}>>
      [] search.kind = "range" ->
           IF ~(Parseable(search.start_date) /\ Parseable(search.end_date))
           THEN <<TRUE, {}>>
           ELSE IF search.start_date <= search.end_date
           THEN <<TRUE, {r \in RoomsOfComplex(complex_filter) :
                            \A b \in bookings :
                                ~(b.room_id = r /\ Conflicts(b, search.start_date, search.end_date))}>>
           ELSE <<FALSE, {}>>
      [] OTHER -> <<FALSE, {}>>

\* the bookings query of the displayed month
InMonth(b, month) ==
    /\ Parseable(b.check_in_date) /\ Parseable(b.check_out_date)
    /\ \/ (b.check_in_date <= FirstDay(month) /\ b.check_out_date >= LastDay(month))
       \/ (b.check_in_date >= FirstDay(month) /\ b.check_in_date <= LastDay(month))
       \/ (b.check_out_date >= FirstDay(month) /\ b.check_out_date <= LastDay(month))

\* status_map: the room_statuses rows with first_day <= date <= last_day
StatusMap(month, r, d) ==
    IF d \in Dates /\ d >= FirstDay(month) /\ d <= LastDay(month)
    THEN room_statuses[<<r, d>>] ELSE NoRow

\* variant of BookingMap that takes the check-out date as occupied too
BookingMapInclusive(rows, r, d) ==
    LET hits == {i \in 1..Len(rows) :
                    /\ rows[i].room_id = r
                    /\ d \in NightsInclusive(rows[i].check_in_date, rows[i].check_out_date)}
    IN IF hits = {} THEN NoBooking ELSE rows[MaxOf(hits)].id

\* booking_map: rows is the sequence of fetched bookings; a later row overwrites
\* an earlier one on the dates both occupy
BookingMap(rows, r, d) ==
    LET hits == {i \in 1..Len(rows) :
                    /\ rows[i].room_id = r
                    /\ d \in Nights(rows[i].check_in_date, rows[i].check_out_date)}
    IN IF hits = {} THEN NoBooking ELSE rows[MaxOf(hits)].id

\* variant of BookingDisplayStatus whose list of occupancy states lacks 'hourly'
BookingDisplayStatusNoHourly(status) ==
    LET st == IF status = "" THEN "booked" ELSE status
    IN IF st \in {"occupied", "vacant", "booked", "ready", "cleaning"}
       THEN st ELSE "booked"

\* the status a booking contributes to a cell that has no room_statuses row
BookingDisplayStatus(status) ==
    LET st == IF status = "" THEN "booked" ELSE status
    IN IF st \in {"occupied", "vacant", "booked", "ready", "cleaning", "hourly"}
       THEN st ELSE "booked"

\* variant of Cell that shows today as a past date
CellTodayVacant(rows, month, r, d) ==
    LET b == BookingMap(rows, r, d)
        custom == StatusMap(month, r, d)
    IN IF b # NoBooking
       THEN [status |-> IF custom # NoRow THEN custom
                        ELSE BookingDisplayStatus(BookingById(b).status),
             booking |-> b]
       ELSE [status |-> IF custom # NoRow THEN custom
                        ELSE IF d <= Today THEN "vacant" ELSE "ready",
             booking |-> NoBooking]

\* variant of Cell in which the booking's status wins over the room_statuses row
CellBookingFirst(rows, month, r, d) ==
    LET b == BookingMap(rows, r, d)
        custom == StatusMap(month, r, d)
    IN IF b # NoBooking
       THEN [status |-> BookingDisplayStatus(BookingById(b).status), booking |-> b]
       ELSE [status |-> IF custom # NoRow THEN custom
                        ELSE IF d < Today THEN "vacant" ELSE "ready",
             booking |-> NoBooking]

\* one cell of calendar_data[room][date]
Cell(rows, month, r, d) ==
    LET b == BookingMap(rows, r, d)
        custom == StatusMap(month, r, d)
    IN IF b # NoBooking
       THEN [status |-> IF custom # NoRow THEN custom
                        ELSE BookingDisplayStatus(BookingById(b).status),
             booking |-> b]
       ELSE [status |-> IF custom # NoRow THEN custom
                        ELSE IF d < Today THEN "vacant" ELSE "ready",
             booking |-> NoBooking]

\* every order in which the store may return a set of rows (no ORDER BY)
Orders(S) ==
    {q \in [1..Cardinality(S) -> S] : \A i, j \in 1..Cardinality(S) : q[i] = q[j] => i = j}

calendar_view(month, complex_filter, search) ==
    /\ \E rows \in Orders({b \in bookings : InMonth(b, month)}) :
         LET found == FreeRooms(search, complex_filter)
             shown == IF found[1] THEN RoomsOfComplex(complex_filter) \cap found[2]
                      ELSE RoomsOfComplex(complex_filter)
         IN view' = [shown |-> TRUE, month |-> month, complex |-> complex_filter,
                     search |-> search, searched |-> found[1], available_rooms |-> found[2],
                     calendar_rooms |-> shown,
                     calendar_data |-> [c \in shown \X DaysInMonth(month) |->
                                           Cell(rows, month, c[1], c[2])]]
    /\ last' = Request("calendar_view", TRUE, NoBooking, 0, BadDate, BadDate, "")
    /\ UNCHANGED <<rooms, bookings, room_statuses, next_id, reqs>>

(* --------------------------- specifications ---------------------------- *)
\* values submitted in the forms
DepositInputs == {"paid"}
EditStatusInputs == {"returned"}
StatusInputs == {"cleaning"}
ComplexInputs == {NoFilter, "A"}
SearchInputs ==
    {NoSearch, Search("free", BadDate, BadDate)}
        \cup {Search("range", s, e) : s \in Dates, e \in Dates}
        \cup {Search("range", BadDate, 1), Search("range", 1, BadDate)}

Init ==
    /\ rooms = RoomIds
    /\ bookings = {}
    /\ room_statuses = EmptyStatuses
    /\ next_id = 1
    /\ last = Request("none", TRUE, NoBooking, 0, BadDate, BadDate, "")
    /\ view = NoView
    /\ reqs = <<>>
    /\ nops = 0

AddBooking ==
    \E r \in RoomIds, ci \in DateInputs, co \in DateInputs, st \in DepositInputs :
        add_booking(r, ci, co, st)

EditBooking ==
    \E id \in 1..MaxBookings, r \in RoomIds, ci \in DateInputs, co \in DateInputs,
       st \in EditStatusInputs :
        edit_booking(id, r, ci, co, st)

DeleteBooking == \E id \in 1..MaxBookings : delete_booking(id)

SetRoomStatus ==
    \E r \in RoomIds, d \in Dates, st \in StatusInputs : set_room_status(r, d, st)

Next ==
    /\ nops < MaxOps
    /\ nops' = nops + 1
    /\ \/ AddBooking
       \/ EditBooking
       \/ DeleteBooking
       \/ SetRoomStatus

Spec == Init /\ [][Next]_vars

(* ------------------- calendar_view over a given store ------------------ *)
\* The store calendar_view renders: at most MaxDrawn booking rows, with any dates
\* and any non-empty status (the forms and the console tool store what they are
\* given), and at most one room_statuses row (a booking row without status rows is
\* what the console tool of manage_aparthotel.py leaves).
BookingStatusDraws == OccupancyStates \cup DepositStates
RowStatusDraws == {"cleaning"}
DrawnDatePairs == (Dates \X Dates) \cup {<<BadDate, BadDate>>}

\* the bookings table holding the rows f[1], ..., f[n] under the ids 1..n
DrawnBookings(n, f) ==
    {[id |-> i, room_id |-> f[i][1], check_in_date |-> f[i][2][1],
      check_out_date |-> f[i][2][2], status |-> f[i][3]] : i \in 1..n}

DrawnStatusTables ==
    {EmptyStatuses} \cup
    {[EmptyStatuses EXCEPT ![k] = st] : k \in RoomIds \X Dates, st \in RowStatusDraws}

InitGrid ==
    /\ rooms = RoomIds
    /\ \E n \in 0..MaxDrawn :
         \E f \in [1..n -> RoomIds \X DrawnDatePairs \X BookingStatusDraws] :
             bookings = DrawnBookings(n, f)
    /\ room_statuses \in DrawnStatusTables
    /\ next_id = Cardinality(bookings) + 1
    /\ last = Request("none", TRUE, NoBooking, 0, BadDate, BadDate, "")
    /\ view = NoView
    /\ reqs = <<>>
    /\ nops = 0

CalendarGrid ==
    /\ nops = 0
    /\ nops' = 1
    /\ \E m \in Months, cf \in ComplexInputs : calendar_view(m, cf, NoSearch)

SpecGrid == InitGrid /\ [][CalendarGrid]_vars

\* the free-room search reads the bookings table alone
InitSearch ==
    /\ rooms = RoomIds
    /\ \E n \in 0..MaxDrawn :
         \E f \in [1..n -> RoomIds \X (DateInputs \X DateInputs) \X {"paid"}] :
             bookings = DrawnBookings(n, f)
    /\ room_statuses = EmptyStatuses
    /\ next_id = Cardinality(bookings) + 1
    /\ last = Request("none", TRUE, NoBooking, 0, BadDate, BadDate, "")
    /\ view = NoView
    /\ reqs = <<>>
    /\ nops = 0

CalendarSearch ==
    /\ nops = 0
    /\ nops' = 1
    /\ \E m \in Months, cf \in {NoFilter, "A", "B"}, s \in SearchInputs \ {NoSearch} :
           calendar_view(m, cf, s)

SpecSearch == InitSearch /\ [][CalendarSearch]_vars

(* --------------- add_booking, one SQL statement at a time -------------- *)
\* Two clients submit the booking form at the same time.  The date validation is
\* local to the request; the INSERT of the booking and every upsert of a status
\* row are statements of their own.
Clients == {"c1", "c2"}

Idle == [pc |-> "idle", id |-> NoBooking, room_id |-> 0, check_in |-> BadDate,
         check_out |-> BadDate, current_dt |-> BadDate]

InitRace ==
    /\ rooms = RoomIds
    /\ bookings = {}
    /\ room_statuses = EmptyStatuses
    /\ next_id = 1
    /\ last = Request("none", TRUE, NoBooking, 0, BadDate, BadDate, "")
    /\ view = NoView
    /\ reqs = [c \in Clients |-> Idle]
    /\ nops = 0

\* validation, then INSERT INTO bookings
add_booking_insert(c, room_id, check_in, check_out, deposit_status) ==
    /\ reqs[c].pc = "idle"
    /\ room_id \in rooms
    /\ IF AddAccepts(check_in, check_out)
       THEN /\ next_id <= MaxBookings
            /\ bookings' = InsertBooking(bookings,
                   [id |-> next_id, room_id |-> room_id, check_in_date |-> check_in,
                    check_out_date |-> check_out, status |-> deposit_status])
            /\ next_id' = next_id + 1
            /\ reqs' = [reqs EXCEPT ![c] =
                   [pc |-> "marking", id |-> next_id, room_id |-> room_id,
                    check_in |-> check_in, check_out |-> check_out,
                    current_dt |-> check_in]]
       ELSE /\ UNCHANGED <<bookings, next_id>>
            /\ reqs' = [reqs EXCEPT ![c] =
                   [pc |-> "rejected", id |-> NoBooking, room_id |-> room_id,
                    check_in |-> check_in, check_out |-> check_out,
                    current_dt |-> BadDate]]
    /\ UNCHANGED <<rooms, room_statuses, last, view, nops>>

\* one INSERT INTO room_statuses ... ON CONFLICT DO UPDATE of the marking loop
add_booking_mark(c) ==
    /\ reqs[c].pc = "marking"
    /\ room_statuses' =
           Upsert(room_statuses, reqs[c].room_id, {reqs[c].current_dt}, "booked")
    /\ reqs' = [reqs EXCEPT ![c].current_dt = @ + 1,
                            ![c].pc = IF reqs[c].current_dt + 1 < reqs[c].check_out
                                      THEN "marking" ELSE "done"]
    /\ UNCHANGED <<rooms, bookings, next_id, last, view, nops>>

AddBookingInsert ==
    \E c \in Clients, r \in RoomIds, ci \in DateInputs, co \in DateInputs,
       st \in DepositInputs :
        add_booking_insert(c, r, ci, co, st)

AddBookingMark == \E c \in Clients : add_booking_mark(c)

NextRace == AddBookingInsert \/ AddBookingMark

SpecRace == InitRace /\ [][NextRace]_vars

(* ------------------------------ dashboard (GET) ------------------------ *)
\* The dashboard reads the bookings with their total_amount.  Python's float
\* arithmetic is modelled by exact fractions <<numerator, denominator>> in lowest
\* terms; round(x, 2) is modelled by Round2, which yields hundredths.  The stored
\* date texts are compared as strings by SQL: BadDate stands for a text that sorts
\* before every ISO date (such as "05.01.2025").
PickupDays == 14
\* total_amount IS NULL
NoAmount == -1
ZeroDivisionError == <<0, 0>>
Zero == <<0, 1>>

RECURSIVE GCD(_, _)
GCD(a, b) == IF b = 0 THEN a ELSE GCD(b, a % b)

\* n / d
Frac(n, d) ==
    IF d = 0 THEN ZeroDivisionError
    ELSE IF n = 0 THEN Zero
    ELSE <<n \div GCD(n, d), d \div GCD(n, d)>>

\* p + q
FracAdd(p, q) == Frac(p[1] * q[2] + q[1] * p[2], p[2] * q[2])

RECURSIVE SumOf(_)
\* the sum of the values of a function of finite domain
SumOf(f) ==
    IF DOMAIN f = {} THEN 0
    ELSE LET x == CHOOSE x \in DOMAIN f : TRUE
         IN f[x] + SumOf([y \in DOMAIN f \ {x} |-> f[y]])

RECURSIVE FracSumOf(_)
FracSumOf(f) ==
    IF DOMAIN f = {} THEN Zero
    ELSE LET x == CHOOSE x \in DOMAIN f : TRUE
         IN FracAdd(f[x], FracSumOf([y \in DOMAIN f \ {x} |-> f[y]]))

\* round(x, 2) in hundredths, ties to the even neighbour
Round2(q) ==
    LET s == q[1] * 100
        fl == s \div q[2]
        rem == s % q[2]
    IN IF 2 * rem < q[2] THEN fl
       ELSE IF 2 * rem > q[2] THEN fl + 1
       ELSE IF fl % 2 = 0 THEN fl ELSE fl + 1

MaxDate(a, b) == IF a >= b THEN a ELSE b
MinDate(a, b) == IF a <= b THEN a ELSE b

\* the window of the request: unparseable text falls back to today, a reversed
\* window is swapped
Window(start_str, end_str) ==
    LET bad == ~(Parseable(start_str) /\ Parseable(end_str))
        s == IF bad THEN Today ELSE start_str
        e == IF bad THEN Today ELSE end_str
    IN IF s > e THEN <<e, s>> ELSE <<s, e>>

\* SELECT ... FROM bookings WHERE check_out_date > ? AND check_in_date < ?
Overlapping(start_date, period_end_excl) ==
    {b \in bookings : b.check_out_date > start_date /\ b.check_in_date < period_end_excl}

\* the nights of a fetched row inside the window; a row that does not parse is skipped
NightsOverlap(b, start_date, period_end_excl) ==
    IF ~(Parseable(b.check_in_date) /\ Parseable(b.check_out_date)) THEN 0
    ELSE LET nights == MinDate(b.check_out_date, period_end_excl)
                           - MaxDate(b.check_in_date, start_date)
         IN IF nights > 0 THEN nights ELSE 0

\* variant of SoldNights that takes the end date of the window as exclusive
SoldNightsEndExclusive(start_date, end_date) ==
    SumOf([b \in Overlapping(start_date, end_date) |->
              NightsOverlap(b, start_date, end_date)])

SoldNights(start_date, end_date) ==
    SumOf([b \in Overlapping(start_date, end_date + 1) |->
              NightsOverlap(b, start_date, end_date + 1)])

Occupancy(sold_nights, nights_available) ==
    IF nights_available > 0 THEN Frac(sold_nights * 100, nights_available) ELSE Zero

\* variant of TotalRevenue that counts only the share of the nights inside the window
TotalRevenueProrated(start_date, end_date) ==
    SumOf([b \in Overlapping(start_date, end_date + 1) |->
              IF b.total_amount = NoAmount \/ b.check_out_date <= b.check_in_date THEN 0
              ELSE (b.total_amount * NightsOverlap(b, start_date, end_date + 1))
                       \div (b.check_out_date - b.check_in_date)])

\* SELECT COALESCE(SUM(b.total_amount), 0) ... WHERE check_out_date > ? AND check_in_date < ?
TotalRevenue(start_date, end_date) ==
    SumOf([b \in Overlapping(start_date, end_date + 1) |->
              IF b.total_amount = NoAmount THEN 0 ELSE b.total_amount])

\* variant of Adr without the test of sold_nights
AdrUnguarded(total_revenue, sold_nights) == Frac(total_revenue, sold_nights)

Adr(total_revenue, sold_nights) ==
    IF sold_nights > 0 THEN Frac(total_revenue, sold_nights) ELSE Zero

RevPar(total_revenue, nights_available) ==
    IF nights_available > 0 THEN Frac(total_revenue, nights_available) ELSE Zero

\* p / n
FracDiv(p, n) == IF p = ZeroDivisionError THEN p ELSE Frac(p[1], p[2] * n)

\* SELECT ... FROM bookings WHERE check_in_date <= ? AND check_out_date > ?, then
\* the rows that parse and cover the day
DayRows(day) ==
    {b \in bookings :
        /\ b.check_in_date <= day /\ b.check_out_date > day
        /\ Parseable(b.check_in_date) /\ Parseable(b.check_out_date)
        /\ b.check_in_date <= day /\ day < b.check_out_date}

\* variant of DayShare that allocates the full amount to every day
DayShareFull(b) ==
    IF b.check_out_date - b.check_in_date > 0 /\ b.total_amount # NoAmount
    THEN Frac(b.total_amount, 1)
    ELSE Zero

\* float(total_amt) / nights_total of a row of the pick-up scan
DayShare(b) ==
    IF b.check_out_date - b.check_in_date > 0 /\ b.total_amount # NoAmount
    THEN Frac(b.total_amount, b.check_out_date - b.check_in_date)
    ELSE Zero

PickupOcc(sold_for_day, rooms_count) ==
    IF rooms_count > 0 THEN Round2(Frac(sold_for_day * 100, rooms_count)) ELSE 0

PickupRevenue(day) == Round2(FracSumOf([b \in DayRows(day) |-> DayShare(b)]))

\* variant of RoomRows that keeps the rows without a night inside the window
RoomRowsAnyOverlap(r, start_date, end_date) ==
    {b \in Overlapping(start_date, end_date + 1) :
        b.room_id = r /\ Parseable(b.check_in_date) /\ Parseable(b.check_out_date)}

\* the rows of all_bookings that add to agg_by_room[r]
RoomRows(r, start_date, end_date) ==
    {b \in Overlapping(start_date, end_date + 1) :
        b.room_id = r /\ NightsOverlap(b, start_date, end_date + 1) > 0}

\* variant of RoomShare that allocates the full amount to the window
RoomShareFull(b, start_date, end_date) ==
    IF b.check_out_date - b.check_in_date > 0 /\ b.total_amount # NoAmount
    THEN Frac(b.total_amount, 1)
    ELSE Zero

\* float(total_amt) / nights_total * nights_overlap
RoomShare(b, start_date, end_date) ==
    IF b.check_out_date - b.check_in_date > 0 /\ b.total_amount # NoAmount
    THEN Frac(b.total_amount * NightsOverlap(b, start_date, end_date + 1),
              b.check_out_date - b.check_in_date)
    ELSE Zero

RoomStats(r, start_date, end_date) ==
    LET rows == RoomRows(r, start_date, end_date)
        nights_sold_r == SumOf([b \in rows |-> NightsOverlap(b, start_date, end_date + 1)])
        revenue_r == FracSumOf([b \in rows |-> RoomShare(b, start_date, end_date)])
        nights_available_r == end_date - start_date + 1
    IN [nights_sold |-> nights_sold_r,
        empty_nights |-> nights_available_r - nights_sold_r,
        occupancy |-> IF nights_available_r > 0
                      THEN Frac(nights_sold_r * 100, nights_available_r) ELSE Zero,
        revenue |-> revenue_r,
        adr |-> IF nights_sold_r > 0 THEN FracDiv(revenue_r, nights_sold_r) ELSE Zero,
        booking_count |-> Cardinality(rows)]

NoDashboard == [dashboard |-> FALSE]

dashboard(start_str, end_str) ==
    LET start_date == Window(start_str, end_str)[1]
        end_date == Window(start_str, end_str)[2]
        period_days == end_date - start_date + 1
        rooms_count == Cardinality(rooms)
        sold_nights == SoldNights(start_date, end_date)
        nights_available == rooms_count * period_days
        total_revenue == TotalRevenue(start_date, end_date)
    IN /\ view' = [dashboard |-> TRUE, start_date |-> start_date, end_date |-> end_date,
                   rooms_count |-> rooms_count, sold_nights |-> sold_nights,
                   nights_available |-> nights_available,
                   occupancy |-> Occupancy(sold_nights, nights_available),
                   total_revenue |-> total_revenue,
                   adr |-> Adr(total_revenue, sold_nights),
                   revpar |-> RevPar(total_revenue, nights_available),
                   pickup_dates |-> [i \in 1..PickupDays |-> start_date + (i - 1)],
                   pickup_occ |-> [i \in 1..PickupDays |->
                       PickupOcc(Cardinality(DayRows(start_date + (i - 1))), rooms_count)],
                   pickup_revenue |-> [i \in 1..PickupDays |->
                       PickupRevenue(start_date + (i - 1))],
                   room_stats |-> [r \in rooms |-> RoomStats(r, start_date, end_date)]]
       /\ last' = Request("dashboard", TRUE, NoBooking, 0, BadDate, BadDate, "")
       /\ UNCHANGED <<rooms, bookings, room_statuses, next_id, reqs>>

\* The store the dashboard reads: any rooms, at most MaxDrawn booking rows of these
\* rooms with any date texts and any amount.
DashDates == 1..(MaxDay + 2)
AmountDraws == {NoAmount, 100}
RoomDraws == {{}, {1}, RoomIds}

DashBookings(n, f) ==
    {[id |-> i, room_id |-> f[i][1], check_in_date |-> f[i][2][1],
      check_out_date |-> f[i][2][2], status |-> "paid", total_amount |-> f[i][3]]
        : i \in 1..n}

InitDash ==
    /\ rooms \in RoomDraws
    /\ \E n \in 0..MaxDrawn :
         \E f \in [1..n -> rooms \X ((DashDates \cup {BadDate}) \X (DashDates \cup {BadDate}))
                               \X AmountDraws] :
             bookings = DashBookings(n, f)
    /\ room_statuses = EmptyStatuses
    /\ next_id = Cardinality(bookings) + 1
    /\ last = Request("none", TRUE, NoBooking, 0, BadDate, BadDate, "")
    /\ view = NoDashboard
    /\ reqs = <<>>
    /\ nops = 0

Dashboard ==
    /\ nops = 0
    /\ nops' = 1
    /\ \E s \in DateInputs, e \in DateInputs : dashboard(s, e)

SpecDash == InitDash /\ [][Dashboard]_vars

(* --------------- bookings made and deleted, then the calendar ---------- *)
\* a stay may end the day after the last day the store keeps statuses for
CheckOutInputs == 1..(MaxDay + 1)

AddStay ==
    \E r \in RoomIds, ci \in Dates, co \in CheckOutInputs, st \in DepositInputs :
        add_booking(r, ci, co, st)

ShowMonth == \E m \in Months : calendar_view(m, NoFilter, NoSearch)

NextBoundary ==
    /\ nops < MaxOps
    /\ nops' = nops + 1
    /\ \/ AddStay
       \/ DeleteBooking
       \/ ShowMonth

SpecBoundary == Init /\ [][NextBoundary]_vars

(* ------------------ the "mark booked" upsert, run again ---------------- *)
\* the marking loop of add_booking, for the stored booking b
mark_booked_create(b) ==
    room_statuses' =
        Upsert(room_statuses, b.room_id, Nights(b.check_in_date, b.check_out_date), "booked")

\* _mark_booked of edit_booking, for the stored booking b
mark_booked_edit(b) ==
    room_statuses' =
        InsertIfAbsent(room_statuses, b.room_id,
                       Nights(b.check_in_date, b.check_out_date), "booked")

\* one stored booking, any room_statuses table, and the path that marks it
InitMark ==
    /\ rooms = RoomIds
    /\ \E f \in [1..1 -> RoomIds \X DrawnDatePairs \X DepositInputs] :
           bookings = DrawnBookings(1, f)
    /\ room_statuses \in DrawnStatusTables
    /\ next_id = 2
    /\ last = Request("none", TRUE, NoBooking, 0, BadDate, BadDate, "")
    /\ view = NoView
    /\ \E path \in {"create", "edit"} : reqs = [path |-> path, initial |-> room_statuses]
    /\ nops = 0

MarkCreate ==
    /\ reqs.path = "create"
    /\ \E b \in bookings :
          /\ mark_booked_create(b)
          /\ last' = Request("mark_booked", TRUE, b.id, b.room_id, b.check_in_date,
                             b.check_out_date, b.status)

MarkEdit ==
    /\ reqs.path = "edit"
    /\ \E b \in bookings :
          /\ mark_booked_edit(b)
          /\ last' = Request("mark_booked", TRUE, b.id, b.room_id, b.check_in_date,
                             b.check_out_date, b.status)

NextMark ==
    /\ nops < MaxOps
    /\ nops' = nops + 1
    /\ \/ MarkCreate
       \/ MarkEdit
    /\ UNCHANGED <<rooms, bookings, next_id, view, reqs>>

SpecMark == InitMark /\ [][NextMark]_vars

(* ----- delete_room against add_booking and set_room_status, by statement ---- *)
\* variant of CascadeBookings for a foreign key that is not enforced
CascadeNoBookings(tbl, r) == tbl

\* FOREIGN KEY (room_id) REFERENCES rooms(id) ON DELETE CASCADE of bookings
CascadeBookings(tbl, r) == {b \in tbl : b.room_id # r}

\* FOREIGN KEY (room_id) REFERENCES rooms(id) ON DELETE CASCADE of room_statuses
CascadeStatuses(tbl, r) == [k \in DOMAIN tbl |-> IF k[1] = r THEN NoRow ELSE tbl[k]]

Deleter == "deleter"
Setter == "setter"

InitCascade ==
    /\ rooms = RoomIds
    /\ bookings = {}
    /\ room_statuses = EmptyStatuses
    /\ next_id = 1
    /\ last = Request("none", TRUE, NoBooking, 0, BadDate, BadDate, "")
    /\ view = NoView
    /\ reqs = [p \in Clients \cup {Deleter, Setter} |->
                  IF p \in Clients THEN Idle
                  ELSE IF p = Deleter
                  THEN [pc |-> "idle", room_id |-> 0, cascaded |-> {}]
                  ELSE [pc |-> "idle", room_id |-> 0, status |-> "", d |-> BadDate,
                        dates_to_update |-> {}]]
    /\ nops = 0

\* SELECT id FROM rooms WHERE id = ?
delete_room_select(room_id) ==
    /\ reqs[Deleter].pc = "idle"
    /\ reqs' = [reqs EXCEPT ![Deleter].room_id = room_id,
                            ![Deleter].pc = IF room_id \in rooms THEN "found"
                                            ELSE "not_found"]
    /\ UNCHANGED <<rooms, bookings, room_statuses, next_id, last, view, nops>>

\* DELETE FROM bookings WHERE room_id = ?
delete_room_bookings ==
    /\ reqs[Deleter].pc = "found"
    /\ bookings' = {b \in bookings : b.room_id # reqs[Deleter].room_id}
    /\ reqs' = [reqs EXCEPT ![Deleter].pc = "bookings_deleted"]
    /\ UNCHANGED <<rooms, room_statuses, next_id, last, view, nops>>

\* DELETE FROM room_statuses WHERE room_id = ?
delete_room_statuses ==
    /\ reqs[Deleter].pc = "bookings_deleted"
    /\ room_statuses' = [k \in DOMAIN room_statuses |->
                            IF k[1] = reqs[Deleter].room_id THEN NoRow
                            ELSE room_statuses[k]]
    /\ reqs' = [reqs EXCEPT ![Deleter].pc = "statuses_deleted"]
    /\ UNCHANGED <<rooms, bookings, next_id, last, view, nops>>

\* DELETE FROM rooms WHERE id = ?, with the cascades of the two foreign keys
delete_room_room ==
    /\ reqs[Deleter].pc = "statuses_deleted"
    /\ rooms' = rooms \ {reqs[Deleter].room_id}
    /\ bookings' = CascadeBookings(bookings, reqs[Deleter].room_id)
    /\ room_statuses' = CascadeStatuses(room_statuses, reqs[Deleter].room_id)
    /\ reqs' = [reqs EXCEPT ![Deleter].pc = "done",
                            ![Deleter].cascaded =
                                {b.id : b \in {x \in bookings :
                                                  x.room_id = reqs[Deleter].room_id}}]
    /\ UNCHANGED <<next_id, last, view, nops>>

\* the SELECT of set_room_status that collects dates_to_update
set_room_status_select(room_id, d, status) ==
    /\ reqs[Setter].pc = "idle"
    /\ reqs' = [reqs EXCEPT ![Setter] =
                   [pc |-> "upserting", room_id |-> room_id, status |-> status, d |-> d,
                    dates_to_update |-> DatesToUpdate(room_id, d)]]
    /\ UNCHANGED <<rooms, bookings, room_statuses, next_id, last, view, nops>>

\* one INSERT INTO room_statuses ... ON CONFLICT DO UPDATE of set_room_status; an
\* error of the statement is ignored
set_room_status_upsert ==
    /\ reqs[Setter].pc = "upserting"
    /\ \E dstr \in reqs[Setter].dates_to_update :
          /\ room_statuses' = Upsert(room_statuses, reqs[Setter].room_id, {dstr},
                                     reqs[Setter].status)
          /\ reqs' = [reqs EXCEPT ![Setter].dates_to_update = @ \ {dstr},
                                  ![Setter].pc =
                                      IF reqs[Setter].dates_to_update = {dstr}
                                      THEN "updating" ELSE "upserting"]
    /\ UNCHANGED <<rooms, bookings, next_id, last, view, nops>>

\* UPDATE bookings SET status = ? of set_room_status
set_room_status_update ==
    /\ reqs[Setter].pc = "updating"
    /\ bookings' =
           IF reqs[Setter].status \in OccupancyStates
           THEN {IF b \in BookingsAround(reqs[Setter].room_id, reqs[Setter].d)
                 THEN [b EXCEPT !.status = reqs[Setter].status] ELSE b : b \in bookings}
           ELSE bookings
    /\ reqs' = [reqs EXCEPT ![Setter].pc = "done"]
    /\ UNCHANGED <<rooms, room_statuses, next_id, last, view, nops>>

DeleteRoomSelect == \E r \in RoomIds : delete_room_select(r)

SetRoomStatusSelect ==
    \E r \in RoomIds, d \in Dates, st \in StatusInputs : set_room_status_select(r, d, st)

AddBookingInsertValid ==
    \E c \in Clients, r \in RoomIds, ci \in Dates, co \in Dates, st \in DepositInputs :
        add_booking_insert(c, r, ci, co, st)

NextCascade ==
    \/ DeleteRoomSelect
    \/ delete_room_bookings
    \/ delete_room_statuses
    \/ delete_room_room
    \/ SetRoomStatusSelect
    \/ set_room_status_upsert
    \/ set_room_status_update
    \/ AddBookingInsertValid
    \/ AddBookingMark

SpecCascade == InitCascade /\ [][NextCascade]_vars

(* ------ delete_booking, one SQL statement at a time, against requests ------ *)
\* The connection is in autocommit mode and the wrapper's __enter__ opens no
\* transaction, so every statement inside "with conn:" is committed on its own.
Remover == "remover"

InitRemove ==
    /\ rooms = RoomIds
    /\ bookings = {}
    /\ room_statuses = EmptyStatuses
    /\ next_id = 1
    /\ last = Request("none", TRUE, NoBooking, 0, BadDate, BadDate, "")
    /\ view = NoView
    /\ reqs = [p \in {Remover} |->
                  [pc |-> "idle", id |-> NoBooking, room_id |-> 0, check_out |-> BadDate,
                   current_dt |-> BadDate]]
    /\ nops = 0

\* SELECT room_id, check_in_date, check_out_date FROM bookings WHERE id = ?, and the
\* parsing of the two dates
delete_booking_select(booking_id) ==
    /\ reqs[Remover].pc = "idle"
    /\ reqs' = [reqs EXCEPT ![Remover] =
           IF booking_id \in BookingIds
           THEN LET b == BookingById(booking_id) IN
                [pc |-> IF Parseable(b.check_in_date) /\ Parseable(b.check_out_date)
                        THEN "resetting" ELSE "deleting",
                 id |-> booking_id, room_id |-> b.room_id,
                 check_out |-> b.check_out_date, current_dt |-> b.check_in_date]
           ELSE [pc |-> "deleting", id |-> booking_id, room_id |-> 0,
                 check_out |-> BadDate, current_dt |-> BadDate]]
    /\ UNCHANGED <<rooms, bookings, room_statuses, next_id, last, view, nops>>

\* one INSERT INTO room_statuses ... VALUES (?, ?, 'ready') ON CONFLICT DO UPDATE
delete_booking_reset ==
    /\ reqs[Remover].pc = "resetting"
    /\ room_statuses' =
           Upsert(room_statuses, reqs[Remover].room_id, {reqs[Remover].current_dt}, "ready")
    /\ reqs' = [reqs EXCEPT ![Remover].current_dt = @ + 1,
                            ![Remover].pc =
                                IF reqs[Remover].current_dt + 1 < reqs[Remover].check_out
                                THEN "resetting" ELSE "deleting"]
    /\ UNCHANGED <<rooms, bookings, next_id, last, view, nops>>

\* DELETE FROM bookings WHERE id = ?
delete_booking_delete ==
    /\ reqs[Remover].pc = "deleting"
    /\ bookings' = {b \in bookings : b.id # reqs[Remover].id}
    /\ reqs' = [reqs EXCEPT ![Remover].pc = "done"]
    /\ UNCHANGED <<rooms, room_statuses, next_id, last, view, nops>>

DeleteBookingSelect == \E id \in 1..MaxBookings : delete_booking_select(id)

\* the requests served while delete_booking runs
Served ==
    /\ nops < MaxOps
    /\ nops' = nops + 1
    /\ \/ AddStay
       \/ ShowMonth
       \/ SetRoomStatus
       \/ EditBooking

NextRemove ==
    \/ Served
    \/ DeleteBookingSelect
    \/ delete_booking_reset
    \/ delete_booking_delete

SpecRemove == InitRemove /\ [][NextRemove]_vars

(* ----- bookings made, edited and deleted, with no status set by hand ------ *)
\* the store changes only through add_booking, edit_booking and delete_booking;
\* the calendar may be opened after any of them
ChangeBookings ==
    /\ nops < MaxOps
    /\ nops' = nops + 1
    /\ \/ AddBooking
       \/ EditBooking
       \/ DeleteBooking

OpenCalendar ==
    /\ nops' = nops
    /\ ShowMonth

NextLifecycle == ChangeBookings \/ OpenCalendar

SpecLifecycle == Init /\ [][NextLifecycle]_vars

(* ------------------------------ deposits ------------------------------- *)
\* The deposits page reads bookings.paid_amount and bookings.status; the booking
\* rows of this part carry the total_amount and paid_amount columns (NoAmount for
\* NULL).
PaidDraws == {NoAmount, 0, 50}
DepositStatusInputs == DepositStates \cup {"cleaning"}

DepositBookings(n, f) ==
    {[id |-> i, room_id |-> f[i][1], check_in_date |-> f[i][2][1],
      check_out_date |-> f[i][2][2], status |-> f[i][3], total_amount |-> NoAmount,
      paid_amount |-> f[i][4]]
        : i \in 1..n}

\* WHERE b.paid_amount IS NOT NULL AND b.paid_amount > 0 AND b.status IN ('paid', 'withheld')
DepositsCurrent ==
    {b.id : b \in {x \in bookings : /\ x.paid_amount # NoAmount /\ x.paid_amount > 0
                                    /\ x.room_id \in rooms
                                    /\ x.status \in {"paid", "withheld"}}}

\* WHERE b.paid_amount IS NOT NULL AND b.paid_amount > 0 AND b.status = 'returned'
DepositsReturned ==
    {b.id : b \in {x \in bookings : /\ x.paid_amount # NoAmount /\ x.paid_amount > 0
                                    /\ x.room_id \in rooms
                                    /\ x.status = "returned"}}

deposits ==
    /\ view' = [deposits_current |-> DepositsCurrent, deposits_returned |-> DepositsReturned]
    /\ last' = Request("deposits", TRUE, NoBooking, 0, BadDate, BadDate, "")
    /\ UNCHANGED <<rooms, bookings, room_statuses, next_id, reqs>>

update_deposit_status(booking_id, new_status) ==
    /\ IF new_status \notin {"paid", "withheld", "returned"}
       THEN /\ UNCHANGED bookings
            /\ last' = Request("update_deposit_status", FALSE, booking_id, 0, BadDate,
                               BadDate, new_status)
       ELSE /\ bookings' = {IF b.id = booking_id THEN [b EXCEPT !.status = new_status] ELSE b
                            : b \in bookings}
            /\ last' = Request("update_deposit_status", TRUE, booking_id, 0, BadDate,
                               BadDate, new_status)
    /\ view' = NoView
    /\ UNCHANGED <<rooms, room_statuses, next_id, reqs>>

\* edit_booking, with the total_amount and paid_amount columns of its UPDATE
edit_booking_row(booking_id, room_id, check_in, check_out, deposit_status, total_amount, paid_amount) ==
    /\ booking_id \in BookingIds
    /\ room_id \in rooms
    /\ bookings' = (bookings \ {BookingById(booking_id)}) \cup
           {[id |-> booking_id, room_id |-> room_id, check_in_date |-> check_in,
             check_out_date |-> check_out, status |-> deposit_status,
             total_amount |-> total_amount, paid_amount |-> paid_amount]}
    /\ room_statuses' =
           InsertIfAbsent(room_statuses, room_id, Nights(check_in, check_out), "booked")
    /\ last' = Request("edit_booking", TRUE, booking_id, room_id, check_in,
                       check_out, deposit_status)
    /\ view' = NoView
    /\ UNCHANGED <<rooms, next_id, reqs>>

\* the store the deposits page reads: bookings created with a deposit status
InitDeposits ==
    /\ rooms = RoomIds
    /\ \E n \in 0..MaxDrawn :
         \E f \in [1..n -> RoomIds \X DrawnDatePairs \X DepositStates \X PaidDraws] :
             bookings = DepositBookings(n, f)
    /\ room_statuses = EmptyStatuses
    /\ next_id = Cardinality(bookings) + 1
    /\ last = Request("none", TRUE, NoBooking, 0, BadDate, BadDate, "")
    /\ view = NoView
    /\ reqs = <<>>
    /\ nops = 0

UpdateDepositStatus ==
    \E id \in 1..MaxBookings, st \in DepositStatusInputs : update_deposit_status(id, st)

EditBookingPaid ==
    \E id \in 1..MaxBookings, r \in RoomIds, dd \in DrawnDatePairs, st \in EditStatusInputs,
       paid \in PaidDraws :
        edit_booking_row(id, r, dd[1], dd[2], st, NoAmount, paid)

NextDeposits ==
    /\ nops < MaxOps
    /\ nops' = nops + 1
    /\ \/ UpdateDepositStatus
       \/ EditBookingPaid
       \/ SetRoomStatus
       \/ deposits

SpecDeposits == InitDeposits /\ [][NextDeposits]_vars

(* ------------------ add_booking (POST), with the guest ------------------ *)
\* The submitted form as add_booking reads it: the room, the guest (an existing
\* guest_id, or a country code and a phone number), the extra phone and the dates.
\* The guests table is kept in reqs.guests; reqs.pre_guests is the table before the
\* last request.  A phone is <<country code, subscriber number>>; a stored phone
\* matches a submitted number when it ends with it.
NoRoom == 0
NoGuest == 0
NoCode == 0
NoNumber == 0
\* a number with which code + number has fewer than 7 digits
ShortNumber == 1
CountryCodes == {7}
SubscriberNumbers == {2}

\* the first row of guests whose phone ends with the submitted number
FoundGuests(phone) == {g \in reqs.guests : g.phone[2] = phone}

\* UPDATE guests SET extra_phone = ? WHERE id = ?
SetExtraPhone(tbl, guest_id, extra_phone) ==
    {IF g.id = guest_id THEN [g EXCEPT !.extra_phone = extra_phone] ELSE g : g \in tbl}

add_booking_post(room_input, provided_guest_id, country_code, phone, extra_phone, check_in, check_out, deposit_status) ==
    LET lookup == provided_guest_id = NoGuest
        phone_ok == country_code # NoCode /\ phone # NoNumber /\ phone # ShortNumber
        found == FoundGuests(phone)
        new_id == Cardinality(reqs.guests) + 1
        guest_id == IF ~lookup THEN provided_guest_id
                    ELSE IF found # {} THEN (CHOOSE g \in found : TRUE).id
                    ELSE new_id
        \* the guests table when the dates are validated
        guests_then ==
            IF lookup /\ found = {}
            THEN reqs.guests \cup
                     {[id |-> new_id, phone |-> <<country_code, phone>>,
                       extra_phone |-> extra_phone]}
            ELSE IF extra_phone # NoNumber
            THEN SetExtraPhone(reqs.guests, guest_id, extra_phone)
            ELSE reqs.guests
        rejected(tbl) ==
            /\ UNCHANGED <<bookings, next_id, room_statuses>>
            /\ reqs' = [guests |-> tbl, pre_guests |-> reqs.guests]
            /\ last' = Request("add_booking", FALSE, NoBooking, room_input, check_in,
                               check_out, deposit_status)
    IN /\ IF room_input = NoRoom THEN rejected(reqs.guests)
          ELSE IF lookup /\ ~phone_ok THEN rejected(reqs.guests)
          ELSE IF ~AddAccepts(check_in, check_out) THEN rejected(guests_then)
          ELSE IF guest_id \notin {g.id : g \in guests_then}
          \* the foreign key on guests(id) makes the INSERT fail
          THEN rejected(guests_then)
          ELSE /\ next_id <= MaxBookings
               /\ bookings' = InsertBooking(bookings,
                      [id |-> next_id, room_id |-> room_input, check_in_date |-> check_in,
                       check_out_date |-> check_out, status |-> deposit_status])
               /\ next_id' = next_id + 1
               /\ room_statuses' =
                      Upsert(room_statuses, room_input, Nights(check_in, check_out), "booked")
               /\ reqs' = [guests |-> guests_then, pre_guests |-> reqs.guests]
               /\ last' = Request("add_booking", TRUE, next_id, room_input, check_in,
                                  check_out, deposit_status)
       /\ view' = NoView
       /\ UNCHANGED rooms

InitSubmit ==
    /\ rooms = RoomIds
    /\ bookings = {}
    /\ room_statuses = EmptyStatuses
    /\ next_id = 1
    /\ last = Request("none", TRUE, NoBooking, 0, BadDate, BadDate, "")
    /\ view = NoView
    /\ reqs = [guests |-> {}, pre_guests |-> {}]
    /\ nops = 0

AddBookingPost ==
    \E r \in RoomIds \cup {NoRoom}, g \in {NoGuest, 1}, cc \in CountryCodes \cup {NoCode},
       ph \in SubscriberNumbers \cup {NoNumber, ShortNumber},
       xp \in SubscriberNumbers \cup {NoNumber},
       ci \in DateInputs, co \in DateInputs, st \in DepositInputs :
        add_booking_post(r, g, cc, ph, xp, ci, co, st)

NextSubmit ==
    /\ nops < MaxOps
    /\ nops' = nops + 1
    /\ AddBookingPost

SpecSubmit == InitSubmit /\ [][NextSubmit]_vars

(* ------- bookings made, edited and deleted, then the dashboard ---------- *)
\* add_booking, with the amounts of its INSERT: the form's total_amount field is the
\* rate per night, the stored total_amount is rate * nights
add_booking_row(room_id, check_in, check_out, deposit_status, rate, deposit_amount) ==
    /\ room_id \in rooms
    /\ IF AddAccepts(check_in, check_out)
       THEN /\ next_id <= MaxBookings
            /\ bookings' = InsertBooking(bookings,
                   [id |-> next_id, room_id |-> room_id, check_in_date |-> check_in,
                    check_out_date |-> check_out, status |-> deposit_status,
                    total_amount |-> IF rate = NoAmount THEN NoAmount
                                     ELSE rate * (check_out - check_in),
                    paid_amount |-> deposit_amount])
            /\ next_id' = next_id + 1
            /\ room_statuses' =
                   Upsert(room_statuses, room_id, Nights(check_in, check_out), "booked")
            /\ last' = Request("add_booking", TRUE, next_id, room_id, check_in,
                               check_out, deposit_status)
       ELSE /\ UNCHANGED <<bookings, next_id, room_statuses>>
            /\ last' = Request("add_booking", FALSE, NoBooking, room_id, check_in,
                               check_out, deposit_status)
    /\ view' = NoDashboard
    /\ UNCHANGED <<rooms, reqs>>

RateInputs == {100}

AddBookingRow ==
    \E r \in RoomIds, ci \in DateInputs, co \in DateInputs, st \in DepositInputs,
       rate \in RateInputs :
        add_booking_row(r, ci, co, st, rate, NoAmount)

EditBookingRow ==
    \E id \in 1..MaxBookings, r \in RoomIds, ci \in DateInputs, co \in DateInputs,
       st \in EditStatusInputs, total \in RateInputs :
        edit_booking_row(id, r, ci, co, st, total, NoAmount)

ChangeRows ==
    /\ nops < MaxOps
    /\ nops' = nops + 1
    /\ \/ AddBookingRow
       \/ EditBookingRow
       \/ DeleteBooking

OpenDashboard ==
    /\ nops' = nops
    /\ \E s \in DateInputs, e \in DateInputs : dashboard(s, e)

NextSold == ChangeRows \/ OpenDashboard

SpecSold == Init /\ [][NextSold]_vars

(* ------------- the dashboard over bookings of several rooms ------------- *)
\* the store of the per-room statistics: every room, and up to MaxDrawn + 1 booking
\* rows of these rooms
InitRooms ==
    /\ rooms = RoomIds
    /\ \E n \in 0..(MaxDrawn + 1) :
         \E f \in [1..n -> RoomIds \X DrawnDatePairs \X RateInputs] :
             bookings = DashBookings(n, f)
    /\ room_statuses = EmptyStatuses
    /\ next_id = Cardinality(bookings) + 1
    /\ last = Request("none", TRUE, NoBooking, 0, BadDate, BadDate, "")
    /\ view = NoDashboard
    /\ reqs = <<>>
    /\ nops = 0

SpecRooms == InitRooms /\ [][Dashboard]_vars

(* ============================== claims ================================= *)
\* the dates the calendar of a rendered view displays
DisplayedDays == {d \in 1..(MaxDay + MonthLen) :
                     d > (view.month - 1) * MonthLen /\ d <= view.month * MonthLen}

\* the room_statuses row of (r, d), NoRow outside the days the store knows
RowOf(r, d) == IF d \in Dates THEN room_statuses[<<r, d>>] ELSE NoRow

\* booking b occupies date d: check_in <= d < check_out, or d = check_in when
\* check_in >= check_out
Occupies(b, d) ==
    /\ b.check_in_date # BadDate /\ b.check_out_date # BadDate
    /\ \/ (b.check_in_date <= d /\ d < b.check_out_date)
       \/ (b.check_in_date >= b.check_out_date /\ d = b.check_in_date)

\* C1: in the rendered grid, a cell of a displayed room and a date of the displayed
\* month that has a room_statuses row shows that row's status, whether or not a
\* booking covers the date and whatever the booking's own status is.
C1_OverrideWins ==
    view.shown =>
        \A r \in view.calendar_rooms : \A d \in DisplayedDays :
            RowOf(r, d) # NoRow => view.calendar_data[<<r, d>>].status = RowOf(r, d)

\* a cell with a row is rendered over a booking whose own status would show otherwise
C1_Witness ==
    /\ view.shown
    /\ \E r \in view.calendar_rooms : \E d \in DisplayedDays : \E b \in bookings :
          /\ RowOf(r, d) = "cleaning"
          /\ b.room_id = r /\ Occupies(b, d) /\ b.status = "occupied"
          /\ view.calendar_data[<<r, d>>].booking = b.id
          /\ view.calendar_data[<<r, d>>].status = "cleaning"

\* C2: a displayed cell without a room_statuses row that a booking covers carries one
\* of the covering bookings and shows that booking's status when it is one of
\* occupied, vacant, booked, ready, cleaning, hourly, and "booked" for any other value.
C2_BookingStatusShown ==
    view.shown =>
        \A r \in view.calendar_rooms : \A d \in DisplayedDays :
            (RowOf(r, d) = NoRow /\ \E b \in bookings : b.room_id = r /\ Occupies(b, d))
            => \E b \in bookings :
                  /\ b.room_id = r /\ Occupies(b, d)
                  /\ view.calendar_data[<<r, d>>].booking = b.id
                  /\ view.calendar_data[<<r, d>>].status =
                        IF b.status \in {"occupied", "vacant", "booked", "ready",
                                         "cleaning", "hourly"}
                        THEN b.status ELSE "booked"

\* a covered cell without a row shows the occupancy state "hourly" of its booking
C2_Witness ==
    /\ view.shown
    /\ \E r \in view.calendar_rooms : \E d \in DisplayedDays : \E b \in bookings :
          /\ RowOf(r, d) = NoRow
          /\ b.room_id = r /\ Occupies(b, d) /\ b.status = "hourly"
          /\ view.calendar_data[<<r, d>>].booking = b.id
          /\ view.calendar_data[<<r, d>>].status = "hourly"

C4_EditKeepsOverrides ==
    last.op = "edit_booking" =>
        \A r \in RoomIds : \A d \in Dates :
            room_statuses[<<r, d>>] =
                IF /\ last.pre_statuses[<<r, d>>] = NoRow
                   /\ r = last.room_id
                   /\ last.check_in # BadDate /\ last.check_out # BadDate
                   /\ \/ (last.check_in <= d /\ d < last.check_out)
                      \/ (last.check_in >= last.check_out /\ d = last.check_in)
                THEN "booked"
                ELSE last.pre_statuses[<<r, d>>]

\* a booking was moved onto a night that carried a manual override, which stayed
C4_Witness ==
    /\ last.op = "edit_booking"
    /\ last.check_in # BadDate /\ last.check_in < last.check_out
    /\ \E b \in last.pre_bookings : b.id = last.id /\ b.room_id # last.room_id
    /\ last.pre_statuses[<<last.room_id, last.check_in>>] = "cleaning"
    /\ room_statuses[<<last.room_id, last.check_in>>] = "cleaning"

\* C5: after delete_booking of a stored booking B of room r, B is no longer stored,
\* the other bookings are, and the row of (r, d) is "ready" for every night d of B
\* (check_in <= d < check_out, or d = check_in when check_in >= check_out) whatever
\* it held before; the rows of other dates and other rooms are unchanged.
C5_DeleteResetsNights ==
    (last.op = "delete_booking" /\ last.ok) =>
        \E B \in last.pre_bookings :
            /\ B.id = last.id
            /\ bookings = last.pre_bookings \ {B}
            /\ \A r \in RoomIds : \A d \in Dates :
                  room_statuses[<<r, d>>] =
                      IF r = B.room_id /\ Occupies(B, d)
                      THEN "ready"
                      ELSE last.pre_statuses[<<r, d>>]

\* a booking whose night carried a manual override was deleted
C5_Witness ==
    /\ last.op = "delete_booking" /\ last.ok
    /\ last.check_in # BadDate /\ last.check_in < last.check_out
    /\ last.pre_statuses[<<last.room_id, last.check_in>>] = "cleaning"
    /\ room_statuses[<<last.room_id, last.check_in>>] = "ready"

\* the rooms a calendar request selects with its complex filter
SelectedRooms ==
    {r \in RoomIds : view.complex = "<all>" \/ (IF r = 1 THEN "A" ELSE "B") = view.complex}

\* the rendered view is a search over the dates S..E, both parseable
RangeSearch(S, E) ==
    /\ view.shown
    /\ view.search.kind = "range"
    /\ view.search.start_date = S
    /\ view.search.end_date = E

\* C6: a free-room search with start_date <= end_date returns exactly the rooms of
\* the selected complex for which no stored booking satisfies
\* NOT (check_out <= start_date OR check_in >= end_date), and the grid shows exactly
\* those rooms.
C6_FreeRoomsHalfOpen ==
    \A S \in Dates : \A E \in Dates :
        (RangeSearch(S, E) /\ S <= E) =>
            /\ view.searched
            /\ view.available_rooms =
                   {r \in SelectedRooms :
                       ~\E b \in bookings :
                           /\ b.room_id = r
                           /\ b.check_in_date # BadDate /\ b.check_out_date # BadDate
                           /\ ~(b.check_out_date <= S \/ b.check_in_date >= E)}
            /\ view.calendar_rooms = view.available_rooms

\* a search that keeps one selected room and drops another, whose booking it meets
C6_Witness ==
    \E S \in Dates : \E E \in Dates :
        /\ RangeSearch(S, E) /\ S < E
        /\ view.complex = "<all>"
        /\ view.available_rooms # {}
        /\ \E b \in bookings :
              /\ b.room_id \notin view.available_rooms
              /\ b.check_in_date = S /\ b.check_out_date = E

\* C7 as stated: the search over [S, E] returns exactly the rooms with no booking
\* satisfying check_in < E + 1 AND check_out > S, so that a room with a booking that
\* checks in on E is not free.
C7_EndInclusive ==
    \A S \in Dates : \A E \in Dates :
        (RangeSearch(S, E) /\ S <= E) =>
            view.available_rooms =
                {r \in SelectedRooms :
                    ~\E b \in bookings :
                        /\ b.room_id = r
                        /\ b.check_in_date # BadDate /\ b.check_out_date # BadDate
                        /\ b.check_in_date < E + 1 /\ b.check_out_date > S}

\* C7 as amended: the end date of the search is exclusive: the search over S..E returns
\* exactly the rooms with no booking satisfying check_in < E AND check_out > S, so
\* that a room whose bookings all check in on E or later is returned as free.
C7_EndExclusive ==
    \A S \in Dates : \A E \in Dates :
        (RangeSearch(S, E) /\ S <= E) =>
            /\ \A r \in SelectedRooms :
                  r \in view.available_rooms <=>
                      \A b \in bookings :
                          (b.room_id = r /\ b.check_in_date # BadDate
                                         /\ b.check_out_date # BadDate)
                          => ~(b.check_in_date < E /\ b.check_out_date > S)
            /\ view.available_rooms \subseteq SelectedRooms
            /\ \A r \in SelectedRooms :
                  (\A b \in bookings :
                      b.room_id = r => (b.check_in_date # BadDate /\ b.check_in_date >= E))
                  => r \in view.available_rooms

\* a room with a booking of one night or more that checks in on E is returned as free
C7_Witness ==
    \E S \in Dates : \E E \in Dates :
        /\ RangeSearch(S, E) /\ S < E
        /\ \E b \in bookings :
              /\ b.check_in_date = E /\ b.check_out_date # BadDate
              /\ b.room_id \in view.available_rooms

\* the free rooms of the search over S..E, as C6 states them
FreeOf(S, E) ==
    {r \in SelectedRooms :
        ~\E b \in bookings :
            /\ b.room_id = r
            /\ b.check_in_date # BadDate /\ b.check_out_date # BadDate
            /\ ~(b.check_out_date <= S \/ b.check_in_date >= E)}

\* C8 as stated: a search submitted with start_date > end_date is performed and
\* returns the free rooms of the search with the two dates swapped.
C8_ReversedSwapped ==
    \A S \in Dates : \A E \in Dates :
        (RangeSearch(S, E) /\ S > E) =>
            /\ view.searched
            /\ view.available_rooms = FreeOf(E, S)
            /\ view.calendar_rooms = FreeOf(E, S)

\* C8 as amended: a search submitted with start_date > end_date is ignored: no list
\* of free rooms is produced and the grid shows every room of the selected complex.
C8_ReversedIgnored ==
    \A S \in Dates : \A E \in Dates :
        (RangeSearch(S, E) /\ S > E) =>
            /\ ~view.searched
            /\ view.calendar_rooms = SelectedRooms

\* a reversed search is rendered with a room that the swapped search would drop
C8_Witness ==
    \E S \in Dates : \E E \in Dates :
        /\ RangeSearch(S, E) /\ S > E
        /\ FreeOf(E, S) # SelectedRooms
        /\ view.calendar_rooms = SelectedRooms

\* two stored bookings of one room share an occupied night
DoubleBooked ==
    \E a \in bookings : \E b \in bookings :
        /\ a.id # b.id /\ a.room_id = b.room_id
        /\ \E d \in Dates : Occupies(a, d) /\ Occupies(b, d)

\* C9: no check prevents overlapping bookings: in every interleaving of two
\* add_booking requests, a request is rejected only for its own dates, and the
\* booking of every request that passed the validation is stored, whatever bookings
\* the room has already.
C9_NoOverlapCheck ==
    \A c \in Clients :
        /\ reqs[c].pc = "rejected" =>
              \/ reqs[c].check_in = BadDate \/ reqs[c].check_out = BadDate
              \/ reqs[c].check_out < reqs[c].check_in
        /\ reqs[c].pc \in {"marking", "done"} =>
              \E b \in bookings :
                  /\ b.id = reqs[c].id /\ b.room_id = reqs[c].room_id
                  /\ b.check_in_date = reqs[c].check_in
                  /\ b.check_out_date = reqs[c].check_out

\* both requests are served, for the same room and overlapping nights, and both
\* bookings are stored
C9_Witness ==
    /\ \A c \in Clients : reqs[c].pc = "done"
    /\ reqs["c1"].room_id = reqs["c2"].room_id
    /\ reqs["c1"].check_in < reqs["c1"].check_out
    /\ DoubleBooked

\* C10: every stored booking has check_out_date >= check_in_date.
C10_CheckOutNotBeforeCheckIn ==
    \A b \in bookings :
        (b.check_in_date # BadDate /\ b.check_out_date # BadDate)
        => b.check_out_date >= b.check_in_date

(* ------------------------- claims on the dashboard --------------------- *)
\* the stored bookings whose two dates parse
Readable == {b \in bookings : b.check_in_date # BadDate /\ b.check_out_date # BadDate}

\* the nights of booking b among the dates S..E
NightsWithin(b, S, E) ==
    Cardinality({d \in S..E : b.check_in_date <= d /\ d < b.check_out_date})

AmountOf(b) == IF b.total_amount = NoAmount THEN 0 ELSE b.total_amount

RECURSIVE Factorial(_)
Factorial(n) == IF n <= 1 THEN 1 ELSE n * Factorial(n - 1)

\* a common multiple of the lengths a readable stay can have; amounts are compared
\* in units of 1 / Unit
Unit == Factorial(MaxDay + 1)

\* Unit * total_amount / total_nights * n for a stay of at least one night
Portion(b, n) ==
    IF b.check_out_date > b.check_in_date
    THEN (AmountOf(b) * n * Unit) \div (b.check_out_date - b.check_in_date)
    ELSE 0

\* C11: for every window and every set of stored bookings, sold_nights is the number
\* of (booking, date) pairs with the booking's dates parseable, start <= date <= end
\* and check_in <= date < check_out.
C11_SoldNights ==
    view.dashboard =>
        view.sold_nights =
            Cardinality({p \in Readable \X (view.start_date..view.end_date) :
                            p[1].check_in_date <= p[2] /\ p[2] < p[1].check_out_date})

\* a booking that starts before the window and ends after it is clamped on both sides
C11_Witness ==
    /\ view.dashboard
    /\ view.sold_nights > 0
    /\ \E b \in Readable :
          /\ b.check_in_date < view.start_date
          /\ b.check_out_date > view.end_date + 1

\* C12: the dashboard never divides by zero: occupancy and RevPAR are 0 when
\* nights_available is 0, ADR is 0 when sold_nights is 0, the per-room ADR is 0 when
\* the room sold no night, and the pick-up occupancy is 0 when there is no room.
C12_NoDivisionByZero ==
    view.dashboard =>
        /\ view.occupancy # ZeroDivisionError
        /\ view.adr # ZeroDivisionError
        /\ view.revpar # ZeroDivisionError
        /\ view.nights_available = 0 => (view.occupancy = <<0, 1>> /\ view.revpar = <<0, 1>>)
        /\ view.sold_nights = 0 => view.adr = <<0, 1>>
        /\ \A r \in DOMAIN view.room_stats :
              /\ view.room_stats[r].occupancy # ZeroDivisionError
              /\ view.room_stats[r].adr # ZeroDivisionError
              /\ view.room_stats[r].nights_sold = 0 => view.room_stats[r].adr = <<0, 1>>
        /\ view.rooms_count = 0 => \A i \in 1..PickupDays : view.pickup_occ[i] = 0

\* revenue without a sold night: the bookings of the window are stays of no night
C12_Witness ==
    /\ view.dashboard
    /\ view.sold_nights = 0
    /\ view.total_revenue > 0

\* C13: total_revenue is the sum of total_amount (a missing amount counts 0) over the
\* bookings with check_out > start and check_in < end + 1, each counted once with
\* its full amount.
C13_TotalRevenue ==
    view.dashboard =>
        view.total_revenue =
            SumOf([b \in {x \in bookings : /\ x.check_out_date > view.start_date
                                           /\ x.check_in_date < view.end_date + 1}
                      |-> AmountOf(b)])

\* a booking with fewer nights inside the window than it has is counted in full
C13_Witness ==
    /\ view.dashboard
    /\ \E b \in Readable :
          /\ b.total_amount > 0
          /\ NightsWithin(b, view.start_date, view.end_date) > 0
          /\ NightsWithin(b, view.start_date, view.end_date)
                 < b.check_out_date - b.check_in_date
          /\ view.total_revenue = b.total_amount

\* the readable bookings of room r with at least one night among the dates S..E
StaysWithin(r, S, E) ==
    {b \in Readable : b.room_id = r /\ NightsWithin(b, S, E) > 0}

\* C14: for every room, the per-room revenue is the sum over the room's bookings with
\* at least one night inside the window of total_amount / total_nights *
\* overlap_nights, and the per-room revenues of all rooms add up to the prorated
\* in-window portion of the bookings' amounts.
C14_RoomRevenueProrated ==
    view.dashboard =>
        /\ \A r \in DOMAIN view.room_stats :
              view.room_stats[r].revenue[1] * Unit =
                  view.room_stats[r].revenue[2] *
                      SumOf([b \in StaysWithin(r, view.start_date, view.end_date) |->
                                Portion(b, NightsWithin(b, view.start_date, view.end_date))])
        /\ SumOf([r \in DOMAIN view.room_stats |->
                     (view.room_stats[r].revenue[1] * Unit)
                         \div view.room_stats[r].revenue[2]])
               = SumOf([b \in Readable |->
                           Portion(b, NightsWithin(b, view.start_date, view.end_date))])

\* a stay of amount 100 with some but not all of its nights inside the window
C14_Witness ==
    /\ view.dashboard
    /\ \E b \in Readable :
          /\ b.total_amount = 100
          /\ NightsWithin(b, view.start_date, view.end_date) > 0
          /\ NightsWithin(b, view.start_date, view.end_date)
                 < b.check_out_date - b.check_in_date
          /\ view.room_stats[b.room_id].revenue # <<0, 1>>
          /\ view.room_stats[b.room_id].revenue # <<100, 1>>

\* the readable bookings that cover day
Covering(day) ==
    {b \in Readable : b.check_in_date <= day /\ day < b.check_out_date}

\* the pick-up series has PickupDays entries, for the days start_date + i
PickupShape ==
    /\ DOMAIN view.pickup_dates = 1..14
    /\ DOMAIN view.pickup_occ = 1..14
    /\ DOMAIN view.pickup_revenue = 1..14
    /\ \A i \in 1..14 : view.pickup_dates[i] = view.start_date + (i - 1)

\* C15 as stated: the pick-up series has exactly 14 entries, for the days
\* start_date + i, i in 0..13; the occupancy of an entry is the number of bookings
\* covering the day / rooms_count * 100 and its revenue is the sum over those
\* bookings of total_amount / total_nights.
C15_PickupExact ==
    view.dashboard =>
        /\ PickupShape
        /\ \A i \in 1..14 :
              /\ view.pickup_occ[i] * view.rooms_count =
                     Cardinality(Covering(view.pickup_dates[i])) * 100 * 100
              /\ view.pickup_revenue[i] * Unit =
                     100 * SumOf([b \in Covering(view.pickup_dates[i]) |-> Portion(b, 1)])

\* C15 as amended: the same series, with the occupancy and the revenue of every
\* entry rounded to two decimals (the occupancy is 0 when there is no room).
C15_PickupRounded ==
    view.dashboard =>
        /\ PickupShape
        /\ \A i \in 1..14 :
              LET occ == view.pickup_occ[i] * view.rooms_count
                             - Cardinality(Covering(view.pickup_dates[i])) * 100 * 100
                  rev == view.pickup_revenue[i] * Unit
                             - 100 * SumOf([b \in Covering(view.pickup_dates[i]) |->
                                               Portion(b, 1)])
              IN /\ view.rooms_count > 0 =>
                        (2 * occ <= view.rooms_count /\ -2 * occ <= view.rooms_count)
                 /\ view.rooms_count = 0 => view.pickup_occ[i] = 0
                 /\ 2 * rev <= Unit /\ -2 * rev <= Unit

\* a day covered by a stay whose daily share has more than two decimals
C15_Witness ==
    /\ view.dashboard
    /\ \E i \in 1..14 :
          /\ Covering(view.pickup_dates[i]) # {}
          /\ view.pickup_revenue[i] > 0
          /\ view.pickup_revenue[i] * Unit #
                 100 * SumOf([b \in Covering(view.pickup_dates[i]) |-> Portion(b, 1)])

\* C16: a booking row with a date that cannot be parsed leaves every result of the
\* dashboard as it is without the row: sold nights, total revenue, ADR, RevPAR, the
\* per-room nights and the pick-up counts are those of the readable bookings alone.
C16_BadRowsSkipped ==
    view.dashboard =>
        LET sold == Cardinality({p \in Readable \X (view.start_date..view.end_date) :
                        p[1].check_in_date <= p[2] /\ p[2] < p[1].check_out_date})
            revenue == SumOf([b \in {x \in Readable :
                                        /\ x.check_out_date > view.start_date
                                        /\ x.check_in_date < view.end_date + 1}
                                 |-> AmountOf(b)])
        IN /\ view.sold_nights = sold
           /\ view.total_revenue = revenue
           /\ view.adr[1] * sold = revenue * view.adr[2]
           /\ view.revpar[1] * view.nights_available = revenue * view.revpar[2]
           /\ \A r \in DOMAIN view.room_stats :
                 view.room_stats[r].nights_sold =
                     SumOf([b \in StaysWithin(r, view.start_date, view.end_date) |->
                               NightsWithin(b, view.start_date, view.end_date)])

(* ---------------------- claims on the calendar, continued -------------- *)
\* the booking the rendered grid attaches to the cell of room r and date d
Attached(r, d) == view.calendar_data[<<r, d>>].booking

\* x and y are stays of one room, of at least one night each, and y checks in on
\* the day x checks out
Adjacent(x, y) ==
    /\ x.room_id = y.room_id
    /\ x.check_in_date # BadDate /\ y.check_out_date # BadDate
    /\ x.check_in_date < x.check_out_date
    /\ x.check_out_date = y.check_in_date
    /\ y.check_in_date < y.check_out_date

C20_EmptyCell ==
    view.shown =>
        \A r \in view.calendar_rooms : \A d \in DisplayedDays :
            (/\ RowOf(r, d) = NoRow
             /\ \A b \in bookings : ~(b.room_id = r /\ Occupies(b, d))) =>
                view.calendar_data[<<r, d>>] =
                    [status |-> IF d < Today THEN "vacant" ELSE "ready", booking |-> 0]

\* the grid of the month of today is rendered with an empty cell of today
C20_Witness ==
    /\ view.shown
    /\ Today \in DisplayedDays
    /\ \E r \in view.calendar_rooms :
          /\ RowOf(r, Today) = NoRow
          /\ \A b \in bookings : ~(b.room_id = r /\ Occupies(b, Today))
          /\ view.calendar_data[<<r, Today>>].status = "ready"

\* C18: running the "mark booked" upsert for the same booking a second time, on the
\* create path as on the edit path, leaves every room_statuses row with the value it
\* had after the first run.
C18_MarkIdempotent ==
    nops >= 2 => room_statuses = last.pre_statuses

\* the upsert has run twice and its first run changed a row
C18_Witness ==
    /\ nops >= 2
    /\ room_statuses # reqs.initial
    /\ \E k \in DOMAIN room_statuses : room_statuses[k] = "booked"

\* C19: in every reachable state every stored booking and every room_statuses row
\* refers to an existing room, and once delete_room(r) has completed no booking and
\* no status row of r remains, in every statement-by-statement interleaving with
\* add_booking and set_room_status requests.
C19_NoOrphans ==
    /\ \A b \in bookings : b.room_id \in rooms
    /\ \A k \in DOMAIN room_statuses : room_statuses[k] # NoRow => k[1] \in rooms
    /\ reqs["deleter"].pc = "done" =>
          /\ \A b \in bookings : b.room_id # reqs["deleter"].room_id
          /\ \A d \in Dates : room_statuses[<<reqs["deleter"].room_id, d>>] = NoRow

\* delete_room has completed, and a booking stored for the room after its
\* DELETE FROM bookings was removed with the room
C19_Witness ==
    /\ reqs["deleter"].pc = "done"
    /\ reqs["deleter"].cascaded # {}
    /\ \E c \in Clients :
          /\ reqs[c].room_id = reqs["deleter"].room_id
          /\ reqs[c].id \in reqs["deleter"].cascaded

(* ----------------------- claims on set_room_status --------------------- *)
\* C21: after a set_room_status POST for room r, date d and status s, the
\* room_statuses row of (r, d) has status s, for every d, the check-out date of a
\* stored booking of r included.
C21_SelectedDateSet ==
    last.op = "set_room_status" =>
        room_statuses[<<last.room_id, last.check_in>>] = last.status

\* the bookings of room r, before the last request, whose occupied nights contain d
HoldersBefore(r, d) == {b \in last.pre_bookings : b.room_id = r /\ Occupies(b, d)}

\* C22: a set_room_status POST for (r, d) writes room_statuses rows only for room r
\* and only for the nights of the bookings of r whose occupied nights contain d (for
\* d alone when no booking contains d); the nights of a booking that merely checks
\* out on d are not changed, and neither is that booking's own status.
C22_SetStatusFrame ==
    last.op = "set_room_status" =>
        /\ \A r \in RoomIds : \A x \in Dates :
              room_statuses[<<r, x>>] # last.pre_statuses[<<r, x>>] =>
                  /\ r = last.room_id
                  /\ IF HoldersBefore(r, last.check_in) = {}
                     THEN x = last.check_in
                     ELSE \E b \in HoldersBefore(r, last.check_in) : Occupies(b, x)
        /\ \A b \in last.pre_bookings :
              b \notin HoldersBefore(last.room_id, last.check_in) => b \in bookings

(* ------------------ claims on delete_booking by statement --------------- *)
\* C23: delete_booking resets the statuses and deletes the booking as one atomic
\* step: no concurrent request (calendar_view, set_room_status, edit_booking) is
\* served in a state in which some night of the booking being deleted is already
\* reset to "ready" while the booking row is still stored.
C23_DeleteAtomic ==
    last.op \in {"calendar_view", "set_room_status", "edit_booking"} =>
        ~\E b \in last.pre_bookings :
            /\ b.id = reqs["remover"].id
            /\ \E d \in Dates :
                  /\ Occupies(b, d)
                  /\ last.pre_statuses[<<b.room_id, d>>] = "ready"

(* ------------- claims on the statuses kept by the booking routes -------- *)
\* C24: when no status is ever set by set_room_status and the booking statuses are
\* deposit states, then after any sequence of add_booking, edit_booking and
\* delete_booking every calendar cell whose date is an occupied night of a stored
\* booking of that room shows "booked".
C24_OccupiedShowsBooked ==
    (view.shown /\ \A b \in bookings : b.status \in {"paid", "withheld", "returned"}) =>
        \A r \in view.calendar_rooms : \A d \in DisplayedDays :
            (\E b \in bookings : b.room_id = r /\ Occupies(b, d))
            => view.calendar_data[<<r, d>>].status = "booked"

\* C25: when no status is ever set by set_room_status, then after any sequence of
\* add_booking, edit_booking and delete_booking a room_statuses row "booked" exists
\* for (r, d) only if some stored booking of room r has d among its occupied nights:
\* a booking moved or shortened by edit_booking leaves no "booked" row behind.
C25_BookedOnlyIfOccupied ==
    \A r \in RoomIds : \A d \in Dates :
        room_statuses[<<r, d>>] = "booked"
        => \E b \in bookings : b.room_id = r /\ Occupies(b, d)

(* ---------------------- claims on the deposits page --------------------- *)
\* C26: every booking with a positive paid_amount that was created with a deposit
\* status (paid, withheld, returned) appears in exactly one of the two lists of the
\* deposits page, current (paid or withheld) or returned, after any sequence of
\* update_deposit_status, edit_booking and set_room_status requests.
C26_DepositListed ==
    "deposits_current" \in DOMAIN view =>
        \A b \in bookings :
            (b.paid_amount # -1 /\ b.paid_amount > 0) =>
                /\ b.id \in view.deposits_current \cup view.deposits_returned
                /\ b.id \notin view.deposits_current \cap view.deposits_returned

(* ------------------ claims on the search and the grid ------------------- *)
\* C27: every room returned by the free-room search for a range with
\* start_date < end_date has, in the calendar grid, no booking attached to any of
\* its cells for the dates d with start_date <= d < end_date, zero-length bookings
\* (check_in = check_out), which the calendar attaches to their check-in date,
\* included.
C27_FreeRoomsUnbooked ==
    \A S \in Dates : \A E \in Dates :
        (RangeSearch(S, E) /\ S < E /\ view.searched) =>
            \A r \in view.available_rooms \cap view.calendar_rooms :
                \A d \in DisplayedDays :
                    (S <= d /\ d < E) => view.calendar_data[<<r, d>>].booking = 0

(* ------------------- claims on rejected submissions --------------------- *)
\* C28: an add_booking submission that is rejected (missing room, missing or invalid
\* phone, missing or unparseable dates, check-out before check-in) leaves the stored
\* state unchanged: no booking, no room_statuses row and no guest row is created or
\* modified.
C28_RejectedUnchanged ==
    (last.op = "add_booking" /\ ~last.ok) =>
        /\ bookings = last.pre_bookings
        /\ room_statuses = last.pre_statuses
        /\ reqs.guests = reqs.pre_guests

(* ----------------- claims on the dashboard, continued ------------------- *)
\* the dashboard has been rendered from the current store
Rendered == "dashboard" \in DOMAIN view /\ view.dashboard

\* C29: for every window and every state reachable through add_booking, edit_booking
\* and delete_booking, the dashboard's sold_nights is at most nights_available, the
\* occupancy is at most 100 % and every room's empty_nights (period_days minus its
\* nights_sold) is at least 0.
C29_SoldWithinAvailable ==
    Rendered =>
        /\ view.sold_nights <= view.nights_available
        /\ view.occupancy[1] <= 100 * view.occupancy[2]
        /\ \A r \in DOMAIN view.room_stats : view.room_stats[r].empty_nights >= 0

\* C30: for every window and every set of stored bookings with parseable dates, the
\* per-room nights_sold added up over all rooms equals the aggregate sold_nights, and
\* the per-room booking_count added up over all rooms equals the number of bookings
\* with at least one night inside the window.
C30_RoomsAddUp ==
    (view.dashboard /\ bookings = Readable) =>
        /\ SumOf([r \in DOMAIN view.room_stats |-> view.room_stats[r].nights_sold])
               = view.sold_nights
        /\ SumOf([r \in DOMAIN view.room_stats |-> view.room_stats[r].booking_count])
               = Cardinality({b \in bookings :
                                 NightsWithin(b, view.start_date, view.end_date) > 0})

\* each of the two rooms has a booking with nights inside the window
C30_Witness ==
    /\ view.dashboard
    /\ bookings = Readable
    /\ \A r \in RoomIds : view.room_stats[r].nights_sold > 0
    /\ view.sold_nights >= 2

====
